---- MODULE Spec2Model ----
(***************************************************************************)
(* Model of the circuit ingestion pipeline of tutor/qiskit_utils.py:       *)
(*   CircuitParser.parse_qiskit_code, CircuitSimulator.execute_user_code   *)
(*   (console redirection, exec of the user's script, intercepted plot     *)
(*   call, namespace scan), CircuitParser.extract_gates_from_circuit,      *)
(*   CircuitSimulator.simulate_statevector and simulate_measurements,      *)
(* and of the endpoints parse_circuit, execute_code and simulate of        *)
(* tutor/views.py on one stored circuit record.                            *)
(***************************************************************************)
EXTENDS Integers, Sequences, FiniteSets, TLC

VARIABLES
    sys_stdout,      \* the process-wide sys.stdout (a stream object)
    sys_stderr,      \* the process-wide sys.stderr
    builtins_dict,   \* whether __builtins__ of the module is a dict (imported) or the module
    buf,             \* contents of every StringIO created by a call
    pc,              \* position of every call
    fn,              \* which function the call runs: "parse" or "execute"
    old_stdout,      \* local old_stdout of the call
    old_stderr,      \* local old_stderr of the call
    local_vars,      \* the dict given to exec as locals, in insertion order
    born,            \* history: emission index at which each live key entered local_vars
    rebound,         \* history: whether the script assigned to a name already bound
    clock,           \* history: number of script operations the call has executed
    nobj,            \* number of QuantumCircuit objects the script has created
    raised,          \* history: what the script raised, if anything
    pending,         \* exception in flight while the finally block runs
    retval,          \* value of the pending return statement
    output_data,     \* the output_data dict of execute_user_code
    outcome,         \* how the call ended, as the caller sees it
    qc,              \* a circuit under construction (extractor / simulator input)
    qpc,             \* position of the circuit pipeline
    gates_out,       \* result of extract_gates_from_circuit
    sv_work,         \* working copy and method of simulate_statevector
    qc_before,       \* history: the caller's circuit when it was handed to an engine
    sv_out,          \* what the calls of simulate_statevector returned, in call order
    ms_out,          \* what simulate_measurements returned
    plot_calls,      \* history: the calls of the intercepted plot_histogram, in call order
    qiskit_code,     \* the qiskit_code field of the stored QuantumCircuit record
    db_circuit,      \* the stored record: num_qubits, num_classical_bits, diagram
    db_gates,        \* the CircuitGate rows of the record
    db_result,       \* the SimulationResult row of the record, if any
    db_result_before, \* history: db_result when the last request came in
    response,        \* the last response of an endpoint
    req,             \* history: the record when the last request came in, and what it parsed
    qa_sessions,     \* the QASession rows, in creation order
    qa_listed        \* the sessions the last ask_question / qa_view response showed, and to whom

callVars == <<sys_stdout, sys_stderr, builtins_dict, buf, pc, fn, old_stdout,
              old_stderr, local_vars, born, rebound, clock, nobj, raised,
              pending, retval, output_data, outcome>>
engineVars == <<qc_before, sv_out, ms_out>>
plotVars == <<plot_calls>>
viewVars == <<qiskit_code, db_circuit, db_gates, db_result, db_result_before,
              response, req>>
qaVars == <<qa_sessions, qa_listed>>
circVars == <<qc, qpc, gates_out, sv_work, engineVars, plotVars, viewVars,
              qaVars>>
vars == <<callVars, circVars>>

----------------------------------------------------------------------------
(* Bounds *)

\* longest script (number of statements) run by a single call
MaxSteps == 3
\* longest script of each call when two calls run concurrently
ConcSteps == 1
\* longest instruction list of a circuit
MaxGates == 3
\* longest instruction list of a circuit handed to the simulation engines
MaxEngineGates == 3
\* largest shot count given to simulate_measurements
MaxShots == 2
\* most QASession rows
MaxSessions == 3

Threads == {1, 2}
Names == {"plt", "a", "b"}
Msgs == {"m1", "m2"}

----------------------------------------------------------------------------
(* Stream objects *)

OrigStdout == <<0, "out">>
OrigStderr == <<0, "err">>
Buffers == Threads \X {"out", "err"}

NoExc == [type |-> "none", msg |-> "none"]
NoOutcome == [kind |-> "none", prefix |-> "none", msg |-> "none", value |-> 0]
EmptyOutput == [text_output |-> <<>>, plots |-> <<>>, circuit |-> "None"]

\* One write() on a stream: who wrote, the emission index, the kind of text.
Piece(t, n, kind, text) == [by |-> t, n |-> n, kind |-> kind, text |-> text]

\* stream.write(piece): a StringIO keeps it, the real console is not recorded.
WriteTo(stream, piece, b) ==
    IF stream \in Buffers THEN [b EXCEPT ![stream] = Append(@, piece)] ELSE b

----------------------------------------------------------------------------
(* The locals dict: a Python dict keeps insertion order *)

Keys(d) == {d[i].name : i \in 1..Len(d)}

IndexOf(d, k) == CHOOSE i \in 1..Len(d) : d[i].name = k

\* Faulty variant of DictSet: an assignment moves the key to the end.
DictSetMoveToEnd(d, k, v) ==
    Append(SelectSeq(d, LAMBDA e : e.name # k), [name |-> k, val |-> v])
\* d[k] = v moves nothing: an existing key keeps its position.
DictSet(d, k, v) ==
    IF k \in Keys(d)
    THEN [d EXCEPT ![IndexOf(d, k)] = [name |-> k, val |-> v]]
    ELSE Append(d, [name |-> k, val |-> v])

\* del d[k]
DictDel(d, k) == SelectSeq(d, LAMBDA e : e.name # k)

\* isinstance(var_value, QuantumCircuit): circuit objects are numbered 1, 2, ...
\* in the order the script created them; every other value is 0.
IsCircuit(v) == v > 0

\* The bindings put into local_vars before exec: plot_histogram and plt in
\* both functions, and the silent print in parse_qiskit_code only.
AllNames == Names \cup {"plot_histogram", "plt", "print"}

Prelude(f) ==
    << [name |-> "plot_histogram", val |-> 0], [name |-> "plt", val |-> 0] >>
    \o (IF f = "parse" THEN << [name |-> "print", val |-> 0] >> ELSE << >>)

----------------------------------------------------------------------------
(* Namespace scans *)

\* circuits = {name: value for name, value in local_vars.items()
\*             if isinstance(value, QuantumCircuit)}
Circuits(d) == SelectSeq(d, LAMBDA e : IsCircuit(e.val))

\* next(iter(circuits.items())): the first circuit found
FirstCircuit(d) == Head(Circuits(d))

\* The loop of execute_user_code: every circuit binding overwrites
\* output_data['circuit'], so the last one in dict order stays.
DetectedCircuit(d) ==
    IF Circuits(d) = << >> THEN "None" ELSE Circuits(d)[Len(Circuits(d))].name

----------------------------------------------------------------------------
(* Initial state *)

InitCalls ==
    /\ sys_stdout = OrigStdout
    /\ sys_stderr = OrigStderr
    /\ buf = [b \in Buffers |-> << >>]
    /\ pc = [t \in Threads |-> "idle"]
    /\ fn = [t \in Threads |-> "none"]
    /\ old_stdout = [t \in Threads |-> OrigStdout]
    /\ old_stderr = [t \in Threads |-> OrigStderr]
    /\ local_vars = [t \in Threads |-> << >>]
    /\ born = [t \in Threads |-> [k \in AllNames |-> -1]]
    /\ rebound = [t \in Threads |-> FALSE]
    /\ clock = [t \in Threads |-> 0]
    /\ nobj = [t \in Threads |-> 0]
    /\ raised = [t \in Threads |-> NoExc]
    /\ pending = [t \in Threads |-> NoExc]
    /\ retval = [t \in Threads |-> 0]
    /\ output_data = [t \in Threads |-> EmptyOutput]
    /\ outcome = [t \in Threads |-> NoOutcome]
    /\ plot_calls = [t \in Threads |-> << >>]

\* The stored record before any request: the field defaults of the models
\* (num_qubits = 1, num_classical_bits = 1, no diagram, no gates, no result).
NoResult == [exists |-> FALSE, rows |-> 0, statevector |-> << >>,
             probabilities |-> << >>, counts |-> << >>, shots |-> 0]
NoCircuit == [num_qubits |-> 0, num_clbits |-> 0, data |-> << >>]
NoListing == [user |-> "none", sessions |-> << >>]
NoResponse == [endpoint |-> "none", code |-> 0, error |-> << >>, engines |-> 0,
               parsed_qubits |-> -1]
InitRecord ==
    /\ db_circuit = [num_qubits |-> 1, num_classical_bits |-> 1, diagram |-> FALSE]
    /\ db_gates = << >>
    /\ db_result = NoResult
    /\ db_result_before = NoResult
    /\ response = NoResponse
    /\ req = [db_circuit |-> db_circuit, db_gates |-> db_gates,
              stage |-> "none", parsed |-> NoCircuit]
    /\ qa_sessions = << >>
    /\ qa_listed = NoListing

NoScript == [kind |-> "none"]
InitStore ==
    /\ InitRecord
    /\ qiskit_code = NoScript

InitEngines ==
    /\ qc_before = [num_qubits |-> 0, num_clbits |-> 0, data |-> << >>]
    /\ sv_out = << >>
    /\ ms_out = [kind |-> "none", shots |-> 0, counts |-> << >>,
                 probabilities |-> << >>]

InitCircuit ==
    /\ qc = [num_qubits |-> 0, num_clbits |-> 0, data |-> << >>]
    /\ qpc = "off"
    /\ gates_out = [kind |-> "none", gates |-> << >>]
    /\ sv_work = [kind |-> "none", method |-> 0, data |-> << >>]
    /\ InitEngines
    /\ InitStore

----------------------------------------------------------------------------
(* One call of parse_qiskit_code or execute_user_code, statement by statement *)

\* The caller enters the function; execute_user_code builds output_data.
Call(t) ==
    /\ pc[t] = "idle"
    /\ \E f \in {"parse", "execute"} : fn' = [fn EXCEPT ![t] = f]
    /\ output_data' = [output_data EXCEPT ![t] = EmptyOutput]
    /\ pc' = [pc EXCEPT ![t] = "save_stdout"]
    /\ UNCHANGED <<rebound, sys_stdout, sys_stderr, builtins_dict, buf, old_stdout,
                   old_stderr, local_vars, born, clock, nobj, raised, pending,
                   retval, outcome, circVars>>

\* old_stdout = sys.stdout
SaveStdout(t) ==
    /\ pc[t] = "save_stdout"
    /\ old_stdout' = [old_stdout EXCEPT ![t] = sys_stdout]
    /\ pc' = [pc EXCEPT ![t] = "save_stderr"]
    /\ UNCHANGED <<rebound, sys_stdout, sys_stderr, builtins_dict, buf, fn, old_stderr,
                   local_vars, born, clock, nobj, raised, pending, retval,
                   output_data, outcome, circVars>>

\* old_stderr = sys.stderr
SaveStderr(t) ==
    /\ pc[t] = "save_stderr"
    /\ old_stderr' = [old_stderr EXCEPT ![t] = sys_stderr]
    /\ pc' = [pc EXCEPT ![t] = "set_stdout"]
    /\ UNCHANGED <<rebound, sys_stdout, sys_stderr, builtins_dict, buf, fn, old_stdout,
                   local_vars, born, clock, nobj, raised, pending, retval,
                   output_data, outcome, circVars>>

\* sys.stdout = captured_output = StringIO()
RedirectStdout(t) ==
    /\ pc[t] = "set_stdout"
    /\ sys_stdout' = <<t, "out">>
    /\ buf' = [buf EXCEPT ![<<t, "out">>] = << >>]
    /\ pc' = [pc EXCEPT ![t] = "set_stderr"]
    /\ UNCHANGED <<rebound, sys_stderr, builtins_dict, fn, old_stdout, old_stderr,
                   local_vars, born, clock, nobj, raised, pending, retval,
                   output_data, outcome, circVars>>

\* sys.stderr = captured_errors = StringIO()
RedirectStderr(t) ==
    /\ pc[t] = "set_stderr"
    /\ sys_stderr' = <<t, "err">>
    /\ buf' = [buf EXCEPT ![<<t, "err">>] = << >>]
    /\ pc' = [pc EXCEPT ![t] = "setup"]
    /\ UNCHANGED <<rebound, sys_stdout, builtins_dict, fn, old_stdout, old_stderr,
                   local_vars, born, clock, nobj, raised, pending, retval,
                   output_data, outcome, circVars>>

\* Whether the statements between the redirection and the inner try raise:
\* parse_qiskit_code reads __builtins__['print'], a TypeError when __builtins__
\* is the builtins module instead of its dict; execute_user_code has no such read.
SetupRaises(f, isdict) == f = "parse" /\ ~isdict

\* local_vars = {} ... local_vars['print'] = ...  (outside the try/finally).
\* An exception here goes straight to the outer except Exception, which
\* raises the ValueError; no finally block is on the way.
Setup(t) ==
    /\ pc[t] = "setup"
    /\ IF SetupRaises(fn[t], builtins_dict)
       THEN /\ outcome' = [outcome EXCEPT ![t] =
                  [kind |-> "ValueError", prefix |-> "Error parsing Qiskit code: ",
                   msg |-> "'module' object is not subscriptable", value |-> 0]]
            /\ pc' = [pc EXCEPT ![t] = "done"]
            /\ UNCHANGED <<local_vars, born>>
       ELSE /\ local_vars' = [local_vars EXCEPT ![t] = Prelude(fn[t])]
            /\ born' = [born EXCEPT ![t] =
                  [k \in AllNames |-> IF k \in Keys(Prelude(fn[t])) THEN 0 ELSE -1]]
            /\ pc' = [pc EXCEPT ![t] = "exec"]
            /\ UNCHANGED outcome
    /\ UNCHANGED <<rebound, sys_stdout, sys_stderr, builtins_dict, buf, fn,
                   old_stdout, old_stderr, clock, nobj, raised, pending,
                   retval, output_data, circVars>>

\* exec(qiskit_code, {}, local_vars): the script runs one statement.
\*   sys.stdout.write(..) / sys.stderr.write(..)   (print is the same write on
\*     sys.stdout in execute_user_code)
\*   name = QuantumCircuit(..)   name = <anything else>   del name
ExecWrite(t, bound) ==
    /\ pc[t] = "exec"
    /\ clock[t] < bound
    /\ \E s \in {"out", "err"} :
          buf' = WriteTo(IF s = "out" THEN sys_stdout ELSE sys_stderr,
                         Piece(t, clock[t] + 1, s, "text"), buf)
    /\ clock' = [clock EXCEPT ![t] = @ + 1]
    /\ UNCHANGED <<rebound, sys_stdout, sys_stderr, builtins_dict, pc, fn, old_stdout,
                   old_stderr, local_vars, born, nobj, raised, pending, retval,
                   output_data, outcome, circVars>>

ExecBind(t, bound, names) ==
    /\ pc[t] = "exec"
    /\ clock[t] < bound
    /\ \E k \in names, circuit \in BOOLEAN :
          /\ local_vars' = [local_vars EXCEPT ![t] =
                 DictSet(@, k, IF circuit THEN nobj[t] + 1 ELSE 0)]
          /\ nobj' = [nobj EXCEPT ![t] = IF circuit THEN @ + 1 ELSE @]
          /\ born' = [born EXCEPT ![t][k] = IF @ = -1 THEN clock[t] + 1 ELSE @]
          /\ rebound' = [rebound EXCEPT ![t] = @ \/ born[t][k] # -1]
    /\ clock' = [clock EXCEPT ![t] = @ + 1]
    /\ UNCHANGED <<sys_stdout, sys_stderr, builtins_dict, buf, pc, fn,
                   old_stdout, old_stderr, raised, pending, retval,
                   output_data, outcome, circVars>>

ExecDel(t, bound) ==
    /\ pc[t] = "exec"
    /\ clock[t] < bound
    /\ \E k \in Keys(local_vars[t]) \cap Names :
          /\ local_vars' = [local_vars EXCEPT ![t] = DictDel(@, k)]
          /\ born' = [born EXCEPT ![t][k] = -1]
    /\ clock' = [clock EXCEPT ![t] = @ + 1]
    /\ UNCHANGED <<rebound, sys_stdout, sys_stderr, builtins_dict, buf, pc, fn,
                   old_stdout, old_stderr, nobj, raised, pending, retval,
                   output_data, outcome, circVars>>

\* Where control goes when exec raises: execute_user_code has an
\* "except Exception" clause on the inner try, parse_qiskit_code has only the
\* finally; SystemExit and KeyboardInterrupt are no Exception.
AfterRaise(f, type) ==
    IF f = "execute" /\ type = "Exception" THEN "except" ELSE "finally_stdout"

\* safe_plot_histogram(counts, title='Histogram', figsize=(8, 6)) called by
\* the script. binds: the arguments of the call fit the signature (the
\* library's plot_histogram takes more keywords: legend, color, sort, ...);
\* renders: the library call and savefig go through.
safe_plot_histogram(binds, renders) ==
    IF ~binds THEN "TypeError"
    ELSE IF renders THEN "status" ELSE "error"

PlotTitles == {"Histogram", "t"}

\* The script calls plot_histogram(...) in execute_user_code:
\*   "status": the html with the base64 image is appended to
\*             output_data['plots'], the call returns "Plot '..' generated
\*             successfully";
\*   "error":  except Exception: print("Plot generation failed: ..") and
\*             return that text;
\*   "TypeError": the call itself raises, outside the try of the function,
\*             and the exception is the script's.
ExecPlot(t, bound) ==
    /\ pc[t] = "exec"
    /\ fn[t] = "execute"
    /\ clock[t] < bound
    /\ \E binds \in BOOLEAN, renders \in BOOLEAN, title \in PlotTitles :
          LET result == safe_plot_histogram(binds, renders)
              before == Len(output_data[t].plots)
          IN
          /\ output_data' = [output_data EXCEPT ![t].plots =
                 IF result = "status"
                 THEN Append(@, [n |-> clock[t] + 1, title |-> title,
                                 image_base64 |-> "png"])
                 ELSE @]
          /\ buf' = IF result = "error"
                    THEN WriteTo(sys_stdout,
                                 Piece(t, clock[t] + 1, "out", "Plot generation failed: "),
                                 buf)
                    ELSE buf
          /\ plot_calls' = [plot_calls EXCEPT ![t] =
                 Append(@, [n |-> clock[t] + 1, result |-> result,
                            before |-> before,
                            after |-> Len(output_data'[t].plots)])]
          /\ IF result = "TypeError"
             THEN /\ raised' = [raised EXCEPT ![t] =
                         [type |-> "Exception", msg |-> "unexpected keyword argument"]]
                  /\ pending' = [pending EXCEPT ![t] =
                         [type |-> "Exception", msg |-> "unexpected keyword argument"]]
                  /\ pc' = [pc EXCEPT ![t] = AfterRaise(fn[t], "Exception")]
             ELSE UNCHANGED <<raised, pending, pc>>
    /\ clock' = [clock EXCEPT ![t] = @ + 1]
    /\ UNCHANGED <<rebound, sys_stdout, sys_stderr, builtins_dict, fn, old_stdout,
                   old_stderr, local_vars, born, nobj, retval, outcome,
                   qc, qpc, gates_out, sv_work, engineVars, viewVars, qaVars>>

\* The script raises: an Exception subclass, or a BaseException such as
\* SystemExit (sys.exit()) that "except Exception" does not catch.
ExecRaise(t) ==
    /\ pc[t] = "exec"
    /\ \E type \in {"Exception", "SystemExit"}, m \in Msgs :
          /\ raised' = [raised EXCEPT ![t] = [type |-> type, msg |-> m]]
          /\ pending' = [pending EXCEPT ![t] = [type |-> type, msg |-> m]]
          /\ pc' = [pc EXCEPT ![t] = AfterRaise(fn[t], type)]
    /\ UNCHANGED <<rebound, sys_stdout, sys_stderr, builtins_dict, buf, fn, old_stdout,
                   old_stderr, local_vars, born, clock, nobj, retval,
                   output_data, outcome, circVars>>

\* The script ends without raising.
ExecEnd(t) ==
    /\ pc[t] = "exec"
    /\ pc' = [pc EXCEPT ![t] = "scan"]
    /\ UNCHANGED <<rebound, sys_stdout, sys_stderr, builtins_dict, buf, fn, old_stdout,
                   old_stderr, local_vars, born, clock, nobj, raised, pending,
                   retval, output_data, outcome, circVars>>

\* parse_qiskit_code after exec: no circuit raises the ValueError (inside the
\* try, so the finally runs and the outer except wraps it); otherwise
\* "return circuit" with the first circuit found.
NoCircuitMsg == "No QuantumCircuit object found in the code."

\* Faulty variant of ParseScan: no circuit found returns None instead of raising.
ParseScanNoRaise(d) ==
    IF Circuits(d) = << >>
    THEN [exc |-> NoExc, ret |-> 0]
    ELSE [exc |-> NoExc, ret |-> FirstCircuit(d).val]
\* The scan of parse_qiskit_code (lines 68-79).
ParseScan(d) ==
    IF Circuits(d) = << >>
    THEN [exc |-> [type |-> "Exception", msg |-> NoCircuitMsg], ret |-> 0]
    ELSE [exc |-> NoExc, ret |-> FirstCircuit(d).val]

\* The scan after exec returned normally.
Scan(t) ==
    /\ pc[t] = "scan"
    /\ IF fn[t] = "parse"
       THEN /\ pending' = [pending EXCEPT ![t] = ParseScan(local_vars[t]).exc]
            /\ retval' = [retval EXCEPT ![t] = ParseScan(local_vars[t]).ret]
            /\ UNCHANGED output_data
       ELSE /\ output_data' = [output_data EXCEPT ![t].circuit =
                                   DetectedCircuit(local_vars[t])]
            /\ UNCHANGED <<pending, retval>>
    /\ pc' = [pc EXCEPT ![t] = "finally_stdout"]
    /\ UNCHANGED <<rebound, sys_stdout, sys_stderr, builtins_dict, buf, fn, old_stdout,
                   old_stderr, local_vars, born, clock, nobj, raised, outcome,
                   circVars>>

\* except Exception as e: print(f"Execution error: {str(e)}")
\* print writes to whatever sys.stdout is at this moment.
Except(t) ==
    /\ pc[t] = "except"
    /\ buf' = WriteTo(sys_stdout,
                      Piece(t, clock[t] + 1, "Execution error: ", pending[t].msg),
                      buf)
    /\ clock' = [clock EXCEPT ![t] = @ + 1]
    /\ pending' = [pending EXCEPT ![t] = NoExc]
    /\ pc' = [pc EXCEPT ![t] = "finally_stdout"]
    /\ UNCHANGED <<rebound, sys_stdout, sys_stderr, builtins_dict, fn, old_stdout,
                   old_stderr, local_vars, born, nobj, raised, retval,
                   output_data, outcome, circVars>>

\* finally: sys.stdout = old_stdout
RestoreStdout(t) ==
    /\ pc[t] = "finally_stdout"
    /\ sys_stdout' = old_stdout[t]
    /\ pc' = [pc EXCEPT ![t] = "finally_stderr"]
    /\ UNCHANGED <<rebound, sys_stderr, builtins_dict, buf, fn, old_stdout, old_stderr,
                   local_vars, born, clock, nobj, raised, pending, retval,
                   output_data, outcome, circVars>>

\* finally: sys.stderr = old_stderr
RestoreStderr(t) ==
    /\ pc[t] = "finally_stderr"
    /\ sys_stderr' = old_stderr[t]
    /\ pc' = [pc EXCEPT ![t] = "collect"]
    /\ UNCHANGED <<rebound, sys_stdout, builtins_dict, buf, fn, old_stdout, old_stderr,
                   local_vars, born, clock, nobj, raised, pending, retval,
                   output_data, outcome, circVars>>

\* text_output after the finally block of execute_user_code:
\*   if stdout_content: text_output += stdout_content
\*   if stderr_content: text_output += "STDERR: " + stderr_content
TextOutput(t, out, err) ==
    out \o (IF err = << >> THEN << >>
            ELSE << Piece(t, 0, "STDERR: ", "") >> \o err)

\* What the caller gets once the finally block is through: the pending
\* exception reaches the outer "except Exception" (parse: wrapped in the
\* ValueError built from str(e)), a BaseException passes it, and without an
\* exception the function returns.
Finish(f, pend, ret) ==
    CASE pend.type = "none" ->
           [kind |-> "returned", prefix |-> "", msg |-> "", value |-> ret]
      [] pend.type = "Exception" ->
           [kind |-> "ValueError",
            prefix |-> IF f = "parse" THEN "Error parsing Qiskit code: "
                       ELSE "Error executing user code: ",
            msg |-> pend.msg, value |-> 0]
      [] OTHER ->
           [kind |-> pend.type, prefix |-> "", msg |-> pend.msg, value |-> 0]

\* finally: the getvalue() calls (parse discards them, execute builds
\* text_output), then the return or the propagation of the pending exception.
Collect(t) ==
    /\ pc[t] = "collect"
    /\ output_data' = [output_data EXCEPT ![t].text_output =
           IF fn[t] = "execute"
           THEN @ \o TextOutput(t, buf[<<t, "out">>], buf[<<t, "err">>])
           ELSE @]
    /\ outcome' = [outcome EXCEPT ![t] = Finish(fn[t], pending[t], retval[t])]
    /\ pending' = [pending EXCEPT ![t] = NoExc]
    /\ pc' = [pc EXCEPT ![t] = "done"]
    /\ UNCHANGED <<rebound, sys_stdout, sys_stderr, builtins_dict, buf, fn, old_stdout,
                   old_stderr, local_vars, born, clock, nobj, raised, retval,
                   circVars>>

\* The steps of a call other than the statements of its script.
FrameStep(t) ==
    \/ Call(t)
    \/ SaveStdout(t)
    \/ SaveStderr(t)
    \/ RedirectStdout(t)
    \/ RedirectStderr(t)
    \/ Setup(t)
    \/ ExecRaise(t)
    \/ ExecEnd(t)
    \/ Scan(t)
    \/ Except(t)
    \/ RestoreStdout(t)
    \/ RestoreStderr(t)
    \/ Collect(t)

----------------------------------------------------------------------------
(* Circuits: QuantumCircuit.data as a list of instructions *)

Qubits == {0, 1}

\* A gate parameter: a number, or an unbound symbolic Parameter.
Num(v) == [sym |-> FALSE, val |-> v]
Sym == [sym |-> TRUE, val |-> 0]

Instr(name, qubits, clbits, params) ==
    [name |-> name, qubits |-> qubits, clbits |-> clbits, params |-> params]

\* The instructions a script can append: qc.x(q), qc.rx(1, q),
\* qc.rx(Parameter('t'), q), qc.cx(0, 1), qc.measure(q, q), qc.barrier().
Instructions ==
    {Instr("x", <<q>>, << >>, << >>) : q \in Qubits}
    \cup {Instr("rx", <<q>>, << >>, <<Num(1)>>) : q \in Qubits}
    \cup {Instr("rx", <<q>>, << >>, <<Sym>>) : q \in Qubits}
    \cup {Instr("cx", <<0, 1>>, << >>, << >>)}
    \cup {Instr("measure", <<q>>, <<q>>, << >>) : q \in Qubits}
    \cup {Instr("barrier", <<0, 1>>, << >>, << >>)}

\* float(p): a ParameterExpression with unbound parameters raises TypeError.
Floatable(p) == ~p.sym

\* The body of the for loop of extract_gates_from_circuit for the
\* instruction at position i (1-based here, step_order is 0-based).
GateInfo(ins, step_order) ==
    [gate_type |-> ins.name,
     qubits |-> ins.qubits,
     step_order |-> step_order,
     parameters |-> [k \in 1..Len(ins.params) |-> ins.params[k].val]]

\* extract_gates_from_circuit: the loop runs inside one try; a parameter that
\* float() rejects raises, and the except clause raises the ValueError, so
\* the records gathered so far are lost.
RECURSIVE ExtractLoop(_, _, _)
ExtractLoop(data, i, gates) ==
    IF i > Len(data)
    THEN [kind |-> "returned", gates |-> gates]
    ELSE IF \E k \in 1..Len(data[i].params) : ~Floatable(data[i].params[k])
         THEN [kind |-> "ValueError", gates |-> << >>]
         ELSE ExtractLoop(data, i + 1, Append(gates, GateInfo(data[i], i - 1)))

extract_gates_from_circuit(circuit) == ExtractLoop(circuit.data, 1, << >>)

\* The wires (qubits and classical bits) an instruction acts on.
Wires(ins) ==
    {<<"q", ins.qubits[k]>> : k \in 1..Len(ins.qubits)}
    \cup {<<"c", ins.clbits[k]>> : k \in 1..Len(ins.clbits)}

\* The positions after i whose instruction depends on instruction i through a
\* chain of shared wires (the successors of its node in the circuit's DAG).
RECURSIVE Successors(_, _, _, _)
Successors(data, j, wires, acc) ==
    IF j > Len(data) THEN acc
    ELSE IF Wires(data[j]) \cap wires # {}
         THEN Successors(data, j + 1, wires \cup Wires(data[j]), acc \cup {j})
         ELSE Successors(data, j + 1, wires, acc)

FinalOpTypes == {"measure", "barrier"}

\* QuantumCircuit.remove_final_measurements(): a measure or barrier is final
\* when every instruction after it on its wires, transitively, is a measure or
\* a barrier too; only the final ones are removed.
IsFinalOp(data, i) ==
    /\ data[i].name \in FinalOpTypes
    /\ \A j \in Successors(data, i + 1, Wires(data[i]), {}) :
          data[j].name \in FinalOpTypes

RECURSIVE KeepNonFinal(_, _)
KeepNonFinal(data, i) ==
    IF i > Len(data) THEN << >>
    ELSE (IF IsFinalOp(data, i) THEN << >> ELSE <<data[i]>>)
         \o KeepNonFinal(data, i + 1)

remove_final_measurements(data) == KeepNonFinal(data, 1)

HasMeasure(data) == \E i \in 1..Len(data) : data[i].name = "measure"
HasUnbound(data) ==
    \E i \in 1..Len(data) : \E k \in 1..Len(data[i].params) : data[i].params[k].sym

\* simulate_statevector: method 1 evolves Statevector.from_instruction on the
\* copy without its final measurements, which raises on an instruction with
\* classical bits or an unbound parameter; the except clause then runs
\* method 2, the Aer statevector backend, on a second copy made the same way,
\* which executes a remaining measure and raises on an unbound parameter.
simulate_statevector(circuit) ==
    LET work == remove_final_measurements(circuit.data) IN
    IF ~HasMeasure(work) /\ ~HasUnbound(work)
    THEN [kind |-> "returned", method |-> 1, data |-> work]
    ELSE IF ~HasUnbound(work)
         THEN [kind |-> "returned", method |-> 2, data |-> work]
         ELSE [kind |-> "ValueError", method |-> 2, data |-> work]

\* The script appends one instruction to its circuit.
AppendInstruction ==
    /\ qpc = "build"
    /\ Len(qc.data) < MaxGates
    /\ \E ins \in Instructions : qc' = [qc EXCEPT !.data = Append(@, ins)]
    /\ UNCHANGED <<qpc, gates_out, sv_work, engineVars, plotVars,
                   viewVars, qaVars, callVars>>

\* gates_data = parser.extract_gates_from_circuit(qiskit_circuit)
ExtractGates ==
    /\ qpc = "build"
    /\ gates_out' = extract_gates_from_circuit(qc)
    /\ qpc' = "extracted"
    /\ UNCHANGED <<qc, sv_work, engineVars, plotVars,
                   viewVars, qaVars, callVars>>

\* statevector = simulator.simulate_statevector(qiskit_circuit)
SimulateStatevector ==
    /\ qpc = "extracted"
    /\ sv_work' = simulate_statevector(qc)
    /\ qpc' = "simulated"
    /\ UNCHANGED <<qc, gates_out, engineVars, plotVars,
                   viewVars, qaVars, callVars>>

----------------------------------------------------------------------------
(* Quantum states: exact amplitudes of circuits built from x, h, cx, measure *)

RECURSIVE Pow2(_)
Pow2(n) == IF n = 0 THEN 1 ELSE 2 * Pow2(n - 1)

\* Qubit q is bit q of the basis-state index (qubit 0 is the lowest bit).
Bit(i, q) == (i \div Pow2(q)) % 2
Flip(i, q) == IF Bit(i, q) = 0 THEN i + Pow2(q) ELSE i - Pow2(q)

\* A state is amp[i] / sqrt(2)^k for every basis index i, with the values of
\* the classical bits c; all amplitudes of these gates are real.
ZeroState(n, m) ==
    [amp |-> [i \in 0..(Pow2(n) - 1) |-> IF i = 0 THEN 1 ELSE 0],
     k |-> 0,
     c |-> [j \in 0..(m - 1) |-> 0]]

\* amp / sqrt(2)^k in lowest terms: (2a) / sqrt(2)^(k+2) = a / sqrt(2)^k.
RECURSIVE Reduce(_)
Reduce(st) ==
    IF st.k >= 2 /\ \A i \in DOMAIN st.amp : st.amp[i] % 2 = 0
    THEN Reduce([st EXCEPT !.amp = [i \in DOMAIN st.amp |-> st.amp[i] \div 2],
                           !.k = @ - 2])
    ELSE st

ApplyXSkipped(st, q) == st
ApplyX(st, q) ==
    [st EXCEPT !.amp = [i \in DOMAIN st.amp |-> st.amp[Flip(i, q)]]]

ApplyH(st, q) ==
    Reduce([st EXCEPT
        !.amp = [i \in DOMAIN st.amp |->
                    IF Bit(i, q) = 0 THEN st.amp[i] + st.amp[Flip(i, q)]
                    ELSE st.amp[Flip(i, q)] - st.amp[i]],
        !.k = @ + 1])

ApplyCX(st, ctl, tgt) ==
    [st EXCEPT !.amp = [i \in DOMAIN st.amp |->
                           IF Bit(i, ctl) = 1 THEN st.amp[Flip(i, tgt)]
                           ELSE st.amp[i]]]

\* The outcomes a measurement of qubit q can give in state st.
Possible(st, q) ==
    {b \in {0, 1} : \E i \in DOMAIN st.amp : Bit(i, q) = b /\ st.amp[i] # 0}

\* Measuring q with outcome b into classical bit cb: the other branch is
\* projected away; a branch of probability 1/2 is rescaled by sqrt(2).
Collapse(st, q, cb, b) ==
    Reduce([amp |-> [i \in DOMAIN st.amp |->
                        IF Bit(i, q) = b THEN st.amp[i] ELSE 0],
            k |-> IF Possible(st, q) = {b} THEN st.k ELSE st.k - 1,
            c |-> [st.c EXCEPT ![cb] = b]])

\* The states a run of data[i..] can end in, started in st: every gate is
\* applied in order, a measure draws one of its possible outcomes.
RECURSIVE Run(_, _, _)
Run(data, i, st) ==
    IF i > Len(data) THEN {st}
    ELSE LET ins == data[i] IN
         CASE ins.name = "x" -> Run(data, i + 1, ApplyX(st, ins.qubits[1]))
           [] ins.name = "h" -> Run(data, i + 1, ApplyH(st, ins.qubits[1]))
           [] ins.name = "cx" ->
                Run(data, i + 1, ApplyCX(st, ins.qubits[1], ins.qubits[2]))
           [] ins.name = "barrier" -> Run(data, i + 1, st)
           [] ins.name = "measure" ->
                UNION {Run(data, i + 1,
                           Collapse(st, ins.qubits[1], ins.clbits[1], b)) :
                       b \in Possible(st, ins.qubits[1])}

\* format(i, f'0{width}b'): the binary digits of i, zero-padded on the left
\* to at least width characters.
RECURSIVE Binary(_)
Binary(i) == IF i < 2 THEN <<i>> ELSE Binary(i \div 2) \o <<i % 2>>

FormatBinaryNoPad(i, width) == Binary(i)
FormatBinary(i, width) ==
    LET digits == Binary(i) IN
    IF Len(digits) >= width THEN digits
    ELSE [j \in 1..(width - Len(digits)) |-> 0] \o digits

\* The loop "for i, amplitude in enumerate(statevector)" of
\* simulate_statevector: one entry per amplitude, labelled with the original
\* circuit's num_qubits; probability is |amplitude|^2 = amp^2 / 2^k.
StatevectorEntry(i, st, num_qubits) ==
    [state |-> FormatBinary(i, num_qubits),
     amplitude_real |-> [num |-> st.amp[i], sqrt2 |-> st.k],
     amplitude_imag |-> [num |-> 0, sqrt2 |-> 0],
     probability |-> [num |-> st.amp[i] * st.amp[i], den |-> Pow2(st.k)]]

StatevectorJson(st, num_qubits) ==
    [j \in 1..Pow2(num_qubits) |-> StatevectorEntry(j - 1, st, num_qubits)]

\* Everything a call simulate_statevector(circuit) can give its caller: the
\* list of entries of method 1 or, after its failure, of method 2, or the
\* ValueError when both fail.
StatevectorResults(circuit) ==
    LET r == simulate_statevector(circuit) IN
    IF r.kind = "ValueError"
    THEN {[kind |-> "ValueError", method |-> r.method, entries |-> << >>]}
    ELSE {[kind |-> "returned", method |-> r.method,
           entries |-> StatevectorJson(st, circuit.num_qubits)] :
          st \in Run(r.data, 1, ZeroState(circuit.num_qubits, circuit.num_clbits))}

----------------------------------------------------------------------------
(* Sampling: simulate_measurements *)

RECURSIVE SumOver(_, _)
SumOver(f, S) ==
    IF S = {} THEN 0
    ELSE LET x == CHOOSE y \in S : TRUE IN f[x] + SumOver(f, S \ {x})

\* QuantumCircuit.measure_all() on a circuit of n qubits and m classical
\* bits: a barrier, a new classical register "meas" of n bits after the
\* existing bits, and a measure of qubit q into its bit q.
measure_all(circuit) ==
    LET n == circuit.num_qubits
        m == circuit.num_clbits
    IN [num_qubits |-> n,
        num_clbits |-> m + n,
        data |-> circuit.data
                 \o << Instr("barrier", [q \in 1..n |-> q - 1], << >>, << >>) >>
                 \o [q \in 1..n |-> Instr("measure", <<q - 1>>, <<m + q - 1>>, << >>)]]

\* if not any(gate.name == 'measure' for gate in measurement_circuit.data):
\*     measurement_circuit.measure_all()
WithMeasurements(circuit) ==
    IF HasMeasure(circuit.data) THEN circuit ELSE measure_all(circuit)

\* The classical registers of the measured circuit, in declaration order:
\* "c" with the declared bits (if any), then "meas" if measure_all added it.
Registers(circuit) ==
    (IF circuit.num_clbits > 0 THEN <<circuit.num_clbits>> ELSE << >>)
    \o (IF HasMeasure(circuit.data) THEN << >> ELSE <<circuit.num_qubits>>)

\* A key of result.get_counts(): the registers from the last declared to the
\* first, separated by a space, each with its highest bit first.
RECURSIVE CountsKey(_, _, _)
CountsKey(c, regs, base) ==
    IF regs = << >> THEN << >>
    ELSE LET size == Head(regs)
             bits == [j \in 1..size |-> IF c[base + size - j] = 1 THEN "1" ELSE "0"]
             rest == CountsKey(c, Tail(regs), base + size)
         IN IF rest = << >> THEN bits ELSE rest \o <<" ">> \o bits

\* The keys that one shot of the measured circuit can produce.
ShotKeys(circuit) ==
    LET mc == WithMeasurements(circuit) IN
    {CountsKey(st.c, Registers(circuit), 0) :
        st \in Run(mc.data, 1, ZeroState(mc.num_qubits, mc.num_clbits))}

\* The tallies that shots repetitions can give: every shot adds one to the
\* count of the key it produced, so only observed keys are present.
TalliesLossy(keys, shots) ==
    {f \in UNION {[K -> 1..shots] : K \in SUBSET keys \ {{}}} :
        SumOver(f, DOMAIN f) \in {shots - 1, shots}}
Tallies(keys, shots) ==
    {f \in UNION {[K -> 1..shots] : K \in SUBSET keys \ {{}}} :
        SumOver(f, DOMAIN f) = shots}

\* probabilities = {state: count/shots for state, count in counts.items()}
Probabilities(counts, shots) ==
    [key \in DOMAIN counts |-> [num |-> counts[key], den |-> shots]]

\* Everything a call simulate_measurements(circuit, shots) can give: the pair
\* (probabilities, counts), or the ValueError when the backend rejects the
\* circuit (parameters left unbound).
MeasurementResults(circuit, shots) ==
    IF HasUnbound(circuit.data)
    THEN {[kind |-> "ValueError", shots |-> shots, counts |-> << >>,
           probabilities |-> << >>]}
    ELSE {[kind |-> "returned", shots |-> shots, counts |-> counts,
           probabilities |-> Probabilities(counts, shots)] :
          counts \in Tallies(ShotKeys(circuit), shots)}

----------------------------------------------------------------------------
(* The two simulation engines called on a caller's circuit *)

EngineQubits == {1, 2}

\* The instructions of the circuits handed to the engines: x, h, cx, measure
\* into the classical bit of the same index, and an rx with an unbound angle.
EngineInstructions(n, m) ==
    {Instr("x", <<q>>, << >>, << >>) : q \in 0..(n - 1)}
    \cup {Instr("h", <<q>>, << >>, << >>) : q \in 0..(n - 1)}
    \cup {Instr("cx", <<q, q + 1>>, << >>, << >>) : q \in 0..(n - 2)}
    \cup {Instr("measure", <<q>>, <<q>>, << >>) : q \in 0..((IF m < n THEN m ELSE n) - 1)}
    \cup {Instr("rx", <<0>>, << >>, <<Sym>>)}

\* circuit.copy(): the engine works on a new object, not on the caller's.
circuit_alias(ref) == ref
circuit_copy(ref) == "copy"

\* The caller's circuit after an engine ran its in-place method on the object
\* it works on.
CallerAfter(circuit, changed) ==
    IF circuit_copy("caller") = "caller" THEN changed ELSE circuit

\* The script builds the circuit it will hand over.
EngineAppend ==
    /\ qpc = "engine_build"
    /\ Len(qc.data) < MaxEngineGates
    /\ \E ins \in EngineInstructions(qc.num_qubits, qc.num_clbits) :
          qc' = [qc EXCEPT !.data = Append(@, ins)]
    /\ UNCHANGED <<qpc, gates_out, sv_work, engineVars, plotVars,
                   viewVars, qaVars, callVars>>

\* The caller has its circuit and starts calling the engines.
HandOver ==
    /\ qpc = "engine_build"
    /\ qc_before' = qc
    /\ qpc' = "handed"
    /\ UNCHANGED <<qc, gates_out, sv_work, sv_out, ms_out, plotVars,
                   viewVars, qaVars, callVars>>

\* simulator.simulate_statevector(circuit), possibly a second time on the
\* same circuit.
CallStatevector ==
    /\ qpc = "handed"
    /\ ms_out.kind = "none"
    /\ Len(sv_out) < 2
    /\ \E r \in StatevectorResults(qc) : sv_out' = Append(sv_out, r)
    /\ sv_work' = simulate_statevector(qc)
    /\ qc' = CallerAfter(qc, [qc EXCEPT !.data = remove_final_measurements(@)])
    /\ UNCHANGED <<qpc, gates_out, qc_before, ms_out, plotVars,
                   viewVars, qaVars, callVars>>

\* simulator.simulate_measurements(circuit, shots)
CallMeasurements ==
    /\ qpc = "handed"
    /\ sv_out = << >>
    /\ ms_out.kind = "none"
    /\ \E shots \in 1..MaxShots :
          \E r \in MeasurementResults(qc, shots) : ms_out' = r
    /\ qc' = CallerAfter(qc, WithMeasurements(qc))
    /\ UNCHANGED <<qpc, gates_out, sv_work, qc_before, sv_out, plotVars,
                   viewVars, qaVars, callVars>>

----------------------------------------------------------------------------
(* The endpoints parse_circuit, execute_code and simulate of views.py *)

\* shots=1024 of the simulate endpoint
Shots == 1024

\* What a stored script does when it is executed: it leaves a circuit in its
\* namespace, leaves none, or raises an Exception.
CircuitScript(n, m, data) ==
    [kind |-> "circuit", msg |-> "",
     circuit |-> [num_qubits |-> n, num_clbits |-> m, data |-> data]]
FailingScript(kind, msg) ==
    [kind |-> kind, msg |-> msg,
     circuit |-> [num_qubits |-> 0, num_clbits |-> 0, data |-> << >>]]

\* statevector = Statevector(qc) without the import
StatevectorNameError == "name 'Statevector' is not defined"

ViewScripts ==
    { CircuitScript(0, 0, << >>),
      CircuitScript(1, 0, << Instr("x", <<0>>, << >>, << >>) >>),
      CircuitScript(2, 2, << Instr("x", <<0>>, << >>, << >>),
                             Instr("measure", <<0>>, <<0>>, << >>) >>),
      CircuitScript(2, 0, << Instr("x", <<1>>, << >>, << >>) >>),
      CircuitScript(1, 1, << Instr("measure", <<0>>, <<0>>, << >>),
                             Instr("x", <<0>>, << >>, << >>) >>),
      CircuitScript(1, 0, << Instr("rx", <<0>>, << >>, <<Sym>>) >>),
      CircuitScript(2, 1, << Instr("rx", <<0>>, << >>, <<Num(1)>>),
                             Instr("rx", <<1>>, << >>, <<Sym>>) >>),
      FailingScript("no_circuit", NoCircuitMsg),
      FailingScript("raises", "m1"),
      FailingScript("raises", StatevectorNameError) }

\* parser.parse_qiskit_code(circuit.qiskit_code) as the view sees it
ParseOutcome(script) ==
    IF script.kind = "circuit"
    THEN Finish("parse", NoExc, 0)
    ELSE Finish("parse", [type |-> "Exception", msg |-> script.msg], 0)

\* str(e) of the ValueError raised by the outer except clauses of
\* qiskit_utils.py: f"{prefix}{str(e)}\n\nDebug info:\n{error_details}"
DebugMark == "\n\nDebug info:\n"
Traceback == "traceback.format_exc()"
WithDebugInfo(prefix, msg) == <<prefix, msg, DebugMark, Traceback>>

\* word in error_message.lower()
Mentions(message, word) ==
    \E i \in 1..Len(message) :
        <<message[i], word>> \in
            { <<"Statevector simulation failed: ", "statevector">>,
              <<"Measurement simulation failed: ", "measurement">>,
              <<StatevectorNameError, "statevector">> }

\* The except clause of simulate: the message is replaced when it mentions
\* one of the two engines, and is str(e) otherwise.
FriendlyMessage(message) ==
    IF Mentions(message, "statevector")
    THEN << "Statevector simulation failed. This might be due to measurement operations in the circuit or unsupported gates." >>
    ELSE IF Mentions(message, "measurement")
         THEN << "Measurement simulation failed. Please check your circuit for errors." >>
         ELSE message

\* Response({'error': message}, status=400) / Response({...})
ErrorResponse(endpoint, message, engines, n) ==
    [endpoint |-> endpoint, code |-> 400, error |-> message,
     engines |-> engines, parsed_qubits |-> n]
OkResponse(endpoint, engines, n) ==
    [endpoint |-> endpoint, code |-> 200, error |-> << >>,
     engines |-> engines, parsed_qubits |-> n]

\* if qiskit_circuit.num_qubits == 0
NeverRejected(circuit) == FALSE
HasNoQubits(circuit) == circuit.num_qubits = 0

\* What a handler finds when the request comes in, the stage at which it
\* gave up ("none" when it did not) and the circuit it parsed.
Request(stage, parsed) ==
    [db_circuit |-> db_circuit, db_gates |-> db_gates, stage |-> stage,
     parsed |-> parsed]

\* SimulationResult.objects.update_or_create(circuit=circuit, defaults=...):
\* the row of the circuit gets the values, and is created only when there is
\* none.
create(existing, defaults) ==
    [exists |-> TRUE, rows |-> existing.rows + 1,
     statevector |-> defaults.statevector,
     probabilities |-> defaults.probabilities,
     counts |-> defaults.counts, shots |-> defaults.shots]
update_or_create(existing, defaults) ==
    [exists |-> TRUE, rows |-> IF existing.exists THEN existing.rows ELSE 1,
     statevector |-> defaults.statevector,
     probabilities |-> defaults.probabilities,
     counts |-> defaults.counts, shots |-> defaults.shots]

\* The record's code is replaced (the update of the ModelViewSet).
UpdateCode ==
    /\ \E script \in ViewScripts : qiskit_code' = script
    /\ qiskit_code' # qiskit_code
    /\ UNCHANGED <<db_circuit, db_gates, db_result, db_result_before, response,
                   req, qc, qpc, gates_out, sv_work, engineVars, plotVars, qaVars,
                   callVars>>

\* POST parse_circuit
ParseCircuit ==
    /\ qiskit_code # NoScript
    /\ db_result_before' = db_result
    /\ LET p == ParseOutcome(qiskit_code)
           c == qiskit_code.circuit
           g == extract_gates_from_circuit(c)
       IN
       IF p.kind # "returned"
       THEN /\ response' = ErrorResponse("parse_circuit",
                                         WithDebugInfo(p.prefix, p.msg), 0, -1)
            /\ req' = Request("parse", NoCircuit)
            /\ UNCHANGED <<db_circuit, db_gates>>
       ELSE /\ db_circuit' = [num_qubits |-> c.num_qubits,
                              num_classical_bits |-> c.num_clbits,
                              diagram |-> TRUE]
            /\ IF g.kind = "returned"
               THEN /\ db_gates' = g.gates
                    /\ req' = Request("none", c)
                    /\ response' = OkResponse("parse_circuit", 0, c.num_qubits)
               ELSE /\ db_gates' = << >>
                    /\ req' = Request("extract", c)
                    /\ response' = ErrorResponse("parse_circuit",
                           <<"Error extracting gates: ", "float() argument">>,
                           0, c.num_qubits)
    /\ UNCHANGED <<qiskit_code, db_result,
                   qc, qpc, gates_out, sv_work, engineVars, plotVars, qaVars,
                   callVars>>

\* POST execute_code: execute_user_code prints what the script raises and
\* returns its output, so the response is the success response.
ExecuteCode ==
    /\ qiskit_code # NoScript
    /\ db_result_before' = db_result
    /\ req' = Request("none", NoCircuit)
    /\ LET o == Finish("execute", NoExc, 0) IN
       response' = IF o.kind = "returned"
                   THEN OkResponse("execute_code", 0, -1)
                   ELSE ErrorResponse("execute_code",
                                      WithDebugInfo(o.prefix, o.msg), 0, -1)
    /\ UNCHANGED <<qiskit_code, db_circuit, db_gates, db_result,
                   qc, qpc, gates_out, sv_work, engineVars, plotVars, qaVars,
                   callVars>>

\* POST simulate
Simulate ==
    /\ qiskit_code # NoScript
    /\ db_result_before' = db_result
    /\ LET p == ParseOutcome(qiskit_code)
           c == qiskit_code.circuit
           n == c.num_qubits
       IN
       IF p.kind # "returned"
       THEN /\ response' = ErrorResponse("simulate",
                   FriendlyMessage(WithDebugInfo(p.prefix, p.msg)), 0, -1)
            /\ req' = Request("parse", NoCircuit)
            /\ UNCHANGED <<db_circuit, db_result>>
       ELSE IF HasNoQubits(c)
       THEN /\ response' = ErrorResponse("simulate",
                   << "Circuit has no qubits. Please check your Qiskit code." >>,
                   0, n)
            /\ req' = Request("validate", c)
            /\ UNCHANGED <<db_circuit, db_result>>
       ELSE
         /\ db_circuit' = IF db_circuit.num_qubits # n
                          THEN [db_circuit EXCEPT !.num_qubits = n,
                                                  !.num_classical_bits = c.num_clbits]
                          ELSE db_circuit
         /\ \E sv \in StatevectorResults(c) :
              IF sv.kind # "returned"
              THEN /\ response' = ErrorResponse("simulate",
                          FriendlyMessage(WithDebugInfo(
                              "Statevector simulation failed: ", "unbound parameter")),
                          1, n)
                   /\ req' = Request("statevector", c)
                   /\ UNCHANGED db_result
              ELSE \E ms \in MeasurementResults(c, Shots) :
                IF ms.kind # "returned"
                THEN /\ response' = ErrorResponse("simulate",
                            FriendlyMessage(WithDebugInfo(
                                "Measurement simulation failed: ", "unbound parameter")),
                            2, n)
                     /\ req' = Request("measurement", c)
                     /\ UNCHANGED db_result
                ELSE IF sv.entries = << >>
                THEN /\ response' = ErrorResponse("simulate",
                            << "Statevector simulation returned no results. The circuit might be too complex or contain unsupported operations." >>,
                            2, n)
                     /\ req' = Request("empty", c)
                     /\ UNCHANGED db_result
                ELSE IF DOMAIN ms.probabilities = {}
                THEN /\ response' = ErrorResponse("simulate",
                            << "Measurement simulation returned no results." >>, 2, n)
                     /\ req' = Request("empty", c)
                     /\ UNCHANGED db_result
                ELSE /\ db_result' = update_or_create(db_result,
                                     [statevector |-> sv.entries,
                                      probabilities |-> ms.probabilities,
                                      counts |-> ms.counts,
                                      shots |-> Shots])
                     /\ req' = Request("none", c)
                     /\ response' = OkResponse("simulate", 2, n)
    /\ UNCHANGED <<qiskit_code, db_gates,
                   qc, qpc, gates_out, sv_work, engineVars, plotVars, qaVars,
                   callVars>>

----------------------------------------------------------------------------
(* Question sessions: QASessionViewSet.ask_question and qa_view *)

Users == {"alice", "bob"}

\* The stored circuits and their owners; 3 is the id of no circuit and 0
\* stands for a request without circuit_id.
CircuitOwner == [id \in {1, 2} |-> IF id = 1 THEN "alice" ELSE "bob"]
CircuitIds == {0, 1, 2, 3}

\* QuantumCircuit.objects.get(id=circuit_id, user=request.user) inside
\* "if circuit_id:"; DoesNotExist is passed over and leaves no context.
HasContext(user, circuit_id) ==
    /\ circuit_id # 0
    /\ circuit_id \in DOMAIN CircuitOwner
    /\ CircuitOwner[circuit_id] = user

\* QASession.objects.create(user=request.user, circuit_id=circuit_id, ...):
\* the id of the request is stored as it came; the foreign key rejects the
\* id of no circuit (IntegrityError, no row).
CreateSession(sessions, user, circuit_id) ==
    IF circuit_id # 0 /\ circuit_id \notin DOMAIN CircuitOwner
    THEN sessions
    ELSE Append(sessions, [user |-> user, circuit |-> circuit_id,
                           context |-> HasContext(user, circuit_id)])

\* QASession.objects.filter(user=request.user).order_by('-created_at')[:10]
RECURSIVE Newest(_, _, _)
Newest(sessions, user, limit) ==
    IF sessions = << >> \/ limit = 0 THEN << >>
    ELSE LET last == sessions[Len(sessions)]
             rest == SubSeq(sessions, 1, Len(sessions) - 1)
         IN IF last.user = user
            THEN <<last>> \o Newest(rest, user, limit - 1)
            ELSE Newest(rest, user, limit)

\* POST ask_question: a failure of the tutor becomes the answer text.
AskQuestion ==
    /\ Len(qa_sessions) < MaxSessions
    /\ \E user \in Users, question \in BOOLEAN, circuit_id \in CircuitIds :
          /\ qa_sessions' = IF question
                            THEN CreateSession(qa_sessions, user, circuit_id)
                            ELSE qa_sessions
          /\ qa_listed' = [user |-> user, sessions |-> << >>]
    /\ UNCHANGED <<qc, qpc, gates_out, sv_work, engineVars, plotVars, viewVars,
                   callVars>>

\* qa_view: GET lists the user's sessions; POST with a question asks the
\* tutor (its failure is not caught and ends the request), stores the
\* session and lists again.
QaView ==
    /\ Len(qa_sessions) < MaxSessions
    /\ \E user \in Users, post \in BOOLEAN, question \in BOOLEAN,
          circuit_id \in CircuitIds, answered \in BOOLEAN :
          LET stored == IF post /\ question /\ answered
                        THEN CreateSession(qa_sessions, user, circuit_id)
                        ELSE qa_sessions
              failed == post /\ question
                        /\ (~answered \/ stored = qa_sessions)
          IN
          /\ qa_sessions' = stored
          /\ qa_listed' = IF failed THEN [user |-> user, sessions |-> << >>]
                          ELSE [user |-> user,
                                sessions |-> Newest(stored, user, 10)]
    /\ UNCHANGED <<qc, qpc, gates_out, sv_work, engineVars, plotVars, viewVars,
                   callVars>>

----------------------------------------------------------------------------
(* Specifications *)

\* One call at a time (a single request thread).
Init ==
    /\ InitCalls
    /\ builtins_dict \in BOOLEAN
    /\ InitCircuit

Next ==
    \/ FrameStep(1)
    \/ ExecWrite(1, MaxSteps)
    \/ ExecBind(1, MaxSteps, Names)
    \/ ExecDel(1, MaxSteps)
    \/ ExecPlot(1, MaxSteps)

Spec == Init /\ [][Next]_vars

\* Two requests served concurrently by two threads of one process; the module
\* is imported, so __builtins__ is the dict. The scripts are short and bind
\* one name: the interleaving of the stream statements is what is explored.
InitConc ==
    /\ InitCalls
    /\ builtins_dict = TRUE
    /\ InitCircuit

ConcNames == {"a"}

NextConc ==
    \E t \in Threads :
        \/ FrameStep(t)
        \/ ExecWrite(t, ConcSteps)
        \/ ExecBind(t, ConcSteps, ConcNames)

SpecConc == InitConc /\ [][NextConc]_vars

\* A circuit is built by appending instructions, then handed to the gate
\* extractor and to the statevector simulation.
InitBuild ==
    /\ InitCalls
    /\ builtins_dict = TRUE
    /\ qc = [num_qubits |-> Cardinality(Qubits),
             num_clbits |-> Cardinality(Qubits), data |-> << >>]
    /\ qpc = "build"
    /\ gates_out = [kind |-> "none", gates |-> << >>]
    /\ sv_work = [kind |-> "none", method |-> 0, data |-> << >>]
    /\ InitEngines
    /\ InitStore

NextBuild ==
    \/ AppendInstruction
    \/ ExtractGates
    \/ SimulateStatevector

SpecCircuit == InitBuild /\ [][NextBuild]_vars

\* A circuit of one or two qubits, with any number of classical bits up to
\* its qubits, is built and handed to the two simulation engines.
InitEngine ==
    /\ InitCalls
    /\ builtins_dict = TRUE
    /\ \E n \in EngineQubits, m \in 0..2 :
          /\ m <= n
          /\ qc = [num_qubits |-> n, num_clbits |-> m, data |-> << >>]
    /\ qpc = "engine_build"
    /\ gates_out = [kind |-> "none", gates |-> << >>]
    /\ sv_work = [kind |-> "none", method |-> 0, data |-> << >>]
    /\ InitEngines
    /\ InitStore

NextEngine ==
    \/ EngineAppend
    \/ HandOver
    \/ CallStatevector
    \/ CallMeasurements

SpecEngine == InitEngine /\ [][NextEngine]_vars

\* One stored circuit record and the requests of its owner.
InitView ==
    /\ InitCalls
    /\ builtins_dict = TRUE
    /\ qc = [num_qubits |-> 0, num_clbits |-> 0, data |-> << >>]
    /\ qpc = "off"
    /\ gates_out = [kind |-> "none", gates |-> << >>]
    /\ sv_work = [kind |-> "none", method |-> 0, data |-> << >>]
    /\ InitEngines
    /\ InitRecord
    /\ qiskit_code \in ViewScripts

NextView ==
    \/ UpdateCode
    \/ ParseCircuit
    \/ ExecuteCode
    \/ Simulate

SpecView == InitView /\ [][NextView]_vars

\* Two users, one circuit each, and their question requests.
InitQA ==
    /\ InitCalls
    /\ builtins_dict = TRUE
    /\ InitCircuit

NextQA ==
    \/ AskQuestion
    \/ QaView

SpecQA == InitQA /\ [][NextQA]_vars

----------------------------------------------------------------------------
(* Claims about the console streams *)

Done(t) == pc[t] = "done"

OwnPieces(t, text) == \A i \in 1..Len(text) : text[i].by = t

\* C1: when concurrent calls have all finished, sys.stdout and sys.stderr are
\* the original process streams, and the text captured by each call (its two
\* buffers, its text_output) holds only output written by that call.
C1_ConcurrentCallsIsolated ==
    (\A t \in Threads : Done(t)) =>
        /\ sys_stdout = OrigStdout
        /\ sys_stderr = OrigStderr
        /\ \A t \in Threads :
              /\ OwnPieces(t, buf[<<t, "out">>])
              /\ OwnPieces(t, buf[<<t, "err">>])
              /\ OwnPieces(t, output_data[t].text_output)

----------------------------------------------------------------------------
(* Claims about parse_qiskit_code *)

LoadError(o) == o.kind = "ValueError" /\ o.prefix = "Error parsing Qiskit code: "

ParseDone(t) == Done(t) /\ fn[t] = "parse"
ExecuteDone(t) == Done(t) /\ fn[t] = "execute"

\* The script ran to its end (exec returned).
RanToEnd(t) == raised[t].type = "none" /\ local_vars[t] # << >>

\* The circuit objects bound in the final namespace.
BoundCircuits(t) ==
    {local_vars[t][i].val : i \in {j \in 1..Len(local_vars[t]) :
                                        local_vars[t][j].val > 0}}
CircuitNames(t) ==
    {local_vars[t][i].name : i \in {j \in 1..Len(local_vars[t]) :
                                         local_vars[t][j].val > 0}}

\* C3: a script whose execution leaves no circuit binding makes
\* parse_qiskit_code fail with the load error, and a circuit is never returned
\* from a namespace without one; a script whose execution leaves exactly one
\* circuit binding makes it return that circuit object.
C3_ZeroOrOneCircuit ==
    ParseDone(1) =>
        /\ (outcome[1].kind = "returned" =>
               /\ BoundCircuits(1) # {}
               /\ outcome[1].value \in BoundCircuits(1))
        /\ (RanToEnd(1) /\ CircuitNames(1) = {} =>
               LoadError(outcome[1]) /\ outcome[1].msg = NoCircuitMsg)
        /\ (RanToEnd(1) /\ Cardinality(CircuitNames(1)) = 1 =>
               /\ outcome[1].kind = "returned"
               /\ BoundCircuits(1) = {outcome[1].value})

C3_Witness_Zero ==
    ParseDone(1) /\ RanToEnd(1) /\ CircuitNames(1) = {} /\ clock[1] > 0
C3_Witness_One ==
    /\ ParseDone(1) /\ RanToEnd(1) /\ Cardinality(CircuitNames(1)) = 1
    /\ outcome[1].kind = "returned"
    /\ Len(local_vars[1]) > Len(Prelude("parse"))

Min(S) == CHOOSE x \in S : \A y \in S : x <= y

\* C4 as claimed: with two or more circuit bindings left, the returned circuit
\* is the one the script created first among them.
C4_FirstDeclaredCircuit ==
    ParseDone(1) /\ RanToEnd(1) /\ Cardinality(CircuitNames(1)) >= 2 =>
        /\ outcome[1].kind = "returned"
        /\ outcome[1].value = Min(BoundCircuits(1))

\* The name that entered the namespace first among those holding a circuit.
OldestCircuitName(t) ==
    CHOOSE k \in CircuitNames(t) :
        \A j \in CircuitNames(t) : born[t][k] <= born[t][j]
ValueOf(t, k) == local_vars[t][IndexOf(local_vars[t], k)].val

\* C4 as amended: with two or more circuit bindings left, the returned
\* circuit is the one now bound to the name that entered the namespace first
\* among the names holding a circuit (a rebound name keeps its place, a
\* deleted and rebound name enters anew); without rebinding that is the
\* circuit created first.
C4_FirstNameCircuit ==
    ParseDone(1) /\ RanToEnd(1) /\ Cardinality(CircuitNames(1)) >= 2 =>
        /\ outcome[1].kind = "returned"
        /\ outcome[1].value = ValueOf(1, OldestCircuitName(1))
        /\ (~rebound[1] => outcome[1].value = Min(BoundCircuits(1)))

C4_Witness_Rebound ==
    /\ ParseDone(1) /\ RanToEnd(1) /\ Cardinality(CircuitNames(1)) >= 2
    /\ rebound[1]
    /\ outcome[1].kind = "returned"
    /\ outcome[1].value # Min(BoundCircuits(1))

\* C6: whatever the user's source raises while parse_qiskit_code evaluates it
\* reaches the caller as the load error carrying the original message, never
\* in its raw form.
C6_EveryRaiseWrapped ==
    ParseDone(1) /\ raised[1].type # "none" =>
        LoadError(outcome[1]) /\ outcome[1].msg = raised[1].msg

----------------------------------------------------------------------------
(* Claims about execute_user_code *)

HasErrorLine(text, m) ==
    \E i \in 1..Len(text) :
        text[i].kind = "Execution error: " /\ text[i].text = m

\* C5: execute_user_code never propagates: whatever the script raises, the
\* call returns its output record, and text_output holds an
\* "Execution error: " line carrying the raised message.
C5_ExecuteNeverPropagates ==
    ExecuteDone(1) =>
        /\ outcome[1].kind = "returned"
        /\ (raised[1].type # "none" =>
               HasErrorLine(output_data[1].text_output, raised[1].msg))

\* The pieces of a text that the script (or the error handler) emitted.
Emitted(text) == {i \in 1..Len(text) : text[i].n > 0}

\* C7: in text_output the pieces appear in the order they were emitted,
\* whichever stream each went to, and every piece of the diagnostic stream
\* comes after the "STDERR: " mark.
C7_EmissionOrder ==
    ExecuteDone(1) /\ outcome[1].kind = "returned" =>
        LET text == output_data[1].text_output IN
        /\ \A i, j \in Emitted(text) : text[i].n < text[j].n => i < j
        /\ \A i \in Emitted(text) :
              text[i].kind = "err" =>
                  \E m \in 1..Len(text) : m < i /\ text[m].kind = "STDERR: "

----------------------------------------------------------------------------
(* Claims about the gate extractor and the statevector working copy *)

Extracted == qpc \in {"extracted", "simulated"}

\* C8: for a circuit built by appending k instructions, the extraction returns
\* exactly k records, the i-th describing the i-th appended instruction with
\* step_order i (0-based): 0..k-1, strictly increasing, no gaps, no ties.
C8_StepOrderMatchesConstruction ==
    Extracted =>
        /\ gates_out.kind = "returned"
        /\ Len(gates_out.gates) = Len(qc.data)
        /\ \A i \in 1..Len(gates_out.gates) :
              /\ gates_out.gates[i].step_order = i - 1
              /\ gates_out.gates[i].gate_type = qc.data[i].name
              /\ gates_out.gates[i].qubits = qc.data[i].qubits

\* C9: the extraction never fails on a well-formed circuit: an instruction
\* whose parameters cannot be converted to numbers gets empty parameters and
\* every instruction of the circuit still gets its record.
C9_ExtractionNeverFails ==
    Extracted =>
        /\ gates_out.kind # "ValueError"
        /\ Len(gates_out.gates) = Len(qc.data)
        /\ \A i \in 1..Len(gates_out.gates) :
              (\E k \in 1..Len(qc.data[i].params) : qc.data[i].params[k].sym)
                  => gates_out.gates[i].parameters = << >>

\* C10: the working copy on which simulate_statevector computes amplitudes
\* holds no measure instruction, wherever the measures of the input were.
C10_WorkingCopyHasNoMeasure ==
    qpc = "simulated" /\ sv_work.kind = "returned" => ~HasMeasure(sv_work.data)

\* C11: simulate_statevector fails with the simulation error whenever the
\* working copy still holds an operation with no unitary interpretation (a
\* measure); a returned statevector never comes from the fallback computation
\* (method 2), whose semantics differ.
C11_NonUnitaryFails ==
    qpc = "simulated" =>
        /\ (HasMeasure(sv_work.data) => sv_work.kind = "ValueError")
        /\ (sv_work.kind = "returned" => sv_work.method = 1)

----------------------------------------------------------------------------
(* Claims about the bindings execute_user_code detects *)

\* C19: after execute_user_code returns, whether the script ran to its end or
\* raised part-way, output_data['circuit'] is set exactly when a final binding
\* is a circuit, and with exactly one circuit binding it is that name.
C19_DetectedCircuit ==
    ExecuteDone(1) /\ outcome[1].kind = "returned" =>
        /\ (output_data[1].circuit # "None" <=> CircuitNames(1) # {})
        /\ (Cardinality(CircuitNames(1)) = 1 =>
               output_data[1].circuit \in CircuitNames(1))

----------------------------------------------------------------------------
(* Claims about the simulation engines *)

\* C12: two calls of simulate_statevector on the same circuit that both
\* return give identical entry lists.
C12_StatevectorDeterministic ==
    Len(sv_out) = 2 /\ sv_out[1].kind = "returned" /\ sv_out[2].kind = "returned"
        => sv_out[1].entries = sv_out[2].entries

\* C13: after a call of simulate_statevector or simulate_measurements,
\* returned or raised, the caller's circuit has the instruction list, the
\* qubit count and the classical-bit count it had before the call.
C13_CallerCircuitUnchanged ==
    qpc = "handed" => qc = qc_before

\* a call happened on a circuit that the engine's in-place method would change
C13_Witness ==
    /\ qpc = "handed"
    /\ \/ sv_out # << >> /\ remove_final_measurements(qc_before.data) # qc_before.data
       \/ ms_out.kind = "returned" /\ ~HasMeasure(qc_before.data)
       \/ ms_out.kind = "ValueError"

RECURSIVE BinaryValue(_)
BinaryValue(digits) ==
    IF digits = << >> THEN 0
    ELSE 2 * BinaryValue(SubSeq(digits, 1, Len(digits) - 1)) + digits[Len(digits)]

\* C14: a returned statevector of a circuit of n >= 1 qubits has exactly 2^n
\* entries and the entry at position i (from 0) is labelled with the binary
\* digits of i, padded with zeros to n digits.
C14_EntriesLabelled ==
    \A c \in 1..Len(sv_out) :
        sv_out[c].kind = "returned" =>
            /\ Len(sv_out[c].entries) = Pow2(qc_before.num_qubits)
            /\ \A j \in 1..Len(sv_out[c].entries) :
                  /\ Len(sv_out[c].entries[j].state) = qc_before.num_qubits
                  /\ sv_out[c].entries[j].state \in Seq({0, 1})
                  /\ BinaryValue(sv_out[c].entries[j].state) = j - 1

\* a two-qubit circuit gave a statevector, so labels need padding
C14_Witness ==
    /\ sv_out # << >>
    /\ sv_out[1].kind = "returned"
    /\ qc_before.num_qubits = 2
    /\ Len(sv_out[1].entries) = 4

\* C15: after a returned simulate_measurements(circuit, shots) every count
\* is a positive integer, the counts sum to shots, probabilities has the keys
\* of counts and probabilities[k] is counts[k] / shots.
C15_CountsSumToShots ==
    ms_out.kind = "returned" =>
        /\ \A key \in DOMAIN ms_out.counts : ms_out.counts[key] \in Nat \ {0}
        /\ SumOver(ms_out.counts, DOMAIN ms_out.counts) = ms_out.shots
        /\ DOMAIN ms_out.probabilities = DOMAIN ms_out.counts
        /\ \A key \in DOMAIN ms_out.counts :
              ms_out.probabilities[key].num * ms_out.shots
                  = ms_out.counts[key] * ms_out.probabilities[key].den

\* two shots fell on two different outcomes
C15_Witness ==
    /\ ms_out.kind = "returned"
    /\ ms_out.shots = 2
    /\ Cardinality(DOMAIN ms_out.counts) = 2

\* C16: for a circuit of n qubits without gates and without measure, with
\* any number of declared classical bits, the counts of S shots have the
\* single key of n zeros, with the value S.
C16_EmptyCircuitAllZero ==
    ms_out.kind = "returned" /\ qc_before.data = << >> =>
        /\ DOMAIN ms_out.counts = {[j \in 1..qc_before.num_qubits |-> "0"]}
        /\ \A key \in DOMAIN ms_out.counts : ms_out.counts[key] = ms_out.shots

----------------------------------------------------------------------------
(* Claims about the intercepted plot call and the endpoints *)

\* C17: every call of the intercepted plot_histogram either appends exactly
\* one entry with a non-empty image to the plot list and returns the status
\* string, or appends nothing and returns the error string; it never raises
\* into the script, and the plot list holds the successful calls in call
\* order.
C17_PlotCallNeverRaises ==
    LET calls == plot_calls[1]
        plots == output_data[1].plots
    IN
    /\ \A i \in 1..Len(calls) :
          /\ calls[i].result \in {"status", "error"}
          /\ calls[i].result = "status" =>
                /\ calls[i].after = calls[i].before + 1
                /\ plots[calls[i].after].n = calls[i].n
                /\ plots[calls[i].after].image_base64 # ""
          /\ calls[i].result = "error" => calls[i].after = calls[i].before
    /\ \A i, j \in 1..Len(plots) : i < j => plots[i].n < plots[j].n

\* C18: no error response of parse_circuit, execute_code or simulate carries
\* the 'Debug info' block or the traceback text of the parser or simulator.
C18_NoStackDetail ==
    response.code = 400 =>
        \A i \in 1..Len(response.error) :
            response.error[i] \notin {DebugMark, Traceback}

\* C20: when the parsed circuit has zero qubits, simulate answers with an
\* error response, no engine has been called, and the SimulationResult of
\* the record is what it was before the request.
C20_ZeroQubitsRejected ==
    response.endpoint = "simulate" /\ response.parsed_qubits = 0 =>
        /\ response.code = 400
        /\ response.error # << >>
        /\ response.engines = 0
        /\ db_result = db_result_before

\* the zero-qubit request came in when a result of an earlier simulation was stored
C20_Witness ==
    /\ response.endpoint = "simulate"
    /\ response.parsed_qubits = 0
    /\ db_result.exists

----------------------------------------------------------------------------
(* Claims about Pauli-X circuits *)

OnlyX(data) == \A i \in 1..Len(data) : data[i].name = "x"
TimesX(data, q) ==
    Cardinality({i \in 1..Len(data) : data[i].name = "x" /\ data[i].qubits = <<q>>})

\* C21: for a circuit of n qubits made of X gates only, the returned
\* statevector has one entry of probability 1 and amplitude (1, 0), every
\* other entry has probability 0, and in the label of that entry the
\* character of qubit q, counted from the right, is 1 exactly when X acted
\* on q an odd number of times.
C21_PauliXBasisState ==
    OnlyX(qc_before.data) =>
        \A c \in 1..Len(sv_out) :
            LET entries == sv_out[c].entries
                n == qc_before.num_qubits
                ones == {j \in 1..Len(entries) : entries[j].probability.num # 0}
            IN
            /\ sv_out[c].kind = "returned"
            /\ Cardinality(ones) = 1
            /\ \A j \in ones :
                  /\ entries[j].probability = [num |-> 1, den |-> 1]
                  /\ entries[j].amplitude_real = [num |-> 1, sqrt2 |-> 0]
                  /\ entries[j].amplitude_imag.num = 0
                  /\ \A q \in 0..(n - 1) :
                        entries[j].state[n - q] = TimesX(qc_before.data, q) % 2

\* two qubits, X twice on one and once on the other
C21_Witness ==
    /\ sv_out # << >>
    /\ OnlyX(qc_before.data)
    /\ qc_before.num_qubits = 2
    /\ \E q \in {0, 1} : TimesX(qc_before.data, q) = 2 /\ TimesX(qc_before.data, 1 - q) = 1

----------------------------------------------------------------------------
(* Claims about the stored record and the question sessions *)

\* C22: when parse_circuit answers with an error, the stored num_qubits,
\* num_classical_bits, diagram and gates are what they were before the
\* request; when it answers with success, the stored gates are the
\* extracted list.
C22_ParseAllOrNothing ==
    response.endpoint = "parse_circuit" =>
        /\ response.code = 400 =>
              db_circuit = req.db_circuit /\ db_gates = req.db_gates
        /\ response.code = 200 =>
              db_gates = extract_gates_from_circuit(req.parsed).gates

\* C23: after a successful simulate request the stored num_qubits and
\* num_classical_bits are the counts of the circuit parsed from the source.
C23_StoredCountsMatchParsed ==
    response.endpoint = "simulate" /\ response.code = 200 =>
        /\ db_circuit.num_qubits = req.parsed.num_qubits
        /\ db_circuit.num_classical_bits = req.parsed.num_clbits

\* C24: the circuit has at most one SimulationResult; the result changes
\* only in a simulate request in which both engines returned non-empty
\* results; an error response leaves it as it was; the stored shots value is
\* 1024 and the stored counts sum to it.
C24_OneResultOfFullRuns ==
    /\ db_result.rows <= 1
    /\ db_result # db_result_before =>
          /\ response.endpoint = "simulate"
          /\ response.code = 200
          /\ response.engines = 2
          /\ req.stage = "none"
          /\ db_result.statevector # << >>
          /\ DOMAIN db_result.probabilities # {}
    /\ response.code = 400 => db_result = db_result_before
    /\ db_result.exists =>
          /\ db_result.shots = 1024
          /\ SumOver(db_result.counts, DOMAIN db_result.counts) = db_result.shots

\* a stored result was replaced by the result of a later request
C24_Witness ==
    /\ db_result.exists
    /\ db_result_before.exists
    /\ db_result # db_result_before

\* C25: every QASession that references a circuit references one owned by
\* the session's user, and so does every session listed to a user.
C25_SessionCircuitOwned ==
    /\ \A i \in 1..Len(qa_sessions) :
          qa_sessions[i].circuit # 0 =>
              CircuitOwner[qa_sessions[i].circuit] = qa_sessions[i].user
    /\ \A i \in 1..Len(qa_listed.sessions) :
          qa_listed.sessions[i].circuit # 0 =>
              CircuitOwner[qa_listed.sessions[i].circuit] = qa_listed.user

\* C26: the error message of simulate names the stage that failed:
\* 'Statevector simulation failed...' only when simulate_statevector failed,
\* 'Measurement simulation failed...' only when simulate_measurements failed,
\* and neither of them when parsing the source failed.
C26_MessageNamesFailedStage ==
    LET statevector_text == FriendlyMessage(<<"Statevector simulation failed: ">>)
        measurement_text == FriendlyMessage(<<"Measurement simulation failed: ">>)
    IN
    response.endpoint = "simulate" /\ response.code = 400 =>
        /\ response.error = statevector_text => req.stage = "statevector"
        /\ response.error = measurement_text => req.stage = "measurement"
        /\ req.stage = "parse" =>
              response.error \notin {statevector_text, measurement_text}

====
